---- MODULE Spec2Model ----
(***************************************************************************)
(* Model of catch2_parallel_runner.py: the bounded scheduler of run_tests  *)
(* (dispatch loop, drain loop, summary), the result printer of TestPrinter *)
(* and the duration extraction of print_result.                            *)
(*                                                                         *)
(* A TestCase object is a reference (a positive integer); its fields are   *)
(* obj_name[o] and test_process[o].  A process is an entry of procs,       *)
(* identified by its position (the order of the Popen calls).  Python's    *)
(* 0-based list indices are modelled 1-based.                              *)
(***************************************************************************)
EXTENDS Integers, Sequences, FiniteSets, TLC

\* Bounds of the model.
MaxTests == 2
MaxRepeat == 2
MaxJobs == 2
MaxRuns == 4
MaxLines == 4

\* ---------------------------------------------------------------------------
\* Captured output and duration extraction (print_result, lines 64-72)
\* ---------------------------------------------------------------------------

\* Length of the literal "=====" searched for in a line.
SepRun == 5

\* Initial value of duration in print_result.
NoDuration == 0 - 1

\* What float() can return for the text before " s:" (abstract units).
DurationValues == {0 - 2, 0, 123}

\* A captured line, reduced to what print_result observes of it: eqs is the
\* length of its longest run of '=', parses tells whether float() accepts
\* the text before " s:", val is the float then.
Line(e, p, v) == [eqs |-> e, parses |-> p, val |-> v]

CapturedLines ==
    { Line(e, TRUE, v) : e \in {0, SepRun - 1, SepRun}, v \in DurationValues }
    \cup { Line(e, FALSE, 0) : e \in {0, SepRun - 1, SepRun} }

\* "=====" in lines[line]
HasSeparator(l) == l.eqs >= SepRun

\* The while loop of print_result, from position line with the duration
\* found so far.  raised is TRUE when float() raises ValueError.
RECURSIVE ScanDuration(_, _, _)
ScanDuration(lines, line, duration) ==
    IF duration < 0 /\ line > 1
    THEN IF HasSeparator(lines[line])
         THEN IF lines[line - 1].parses
              THEN ScanDuration(lines, line - 1, lines[line - 1].val)
              ELSE [raised |-> TRUE, duration |-> duration]
         ELSE ScanDuration(lines, line - 1, duration)
    ELSE [raised |-> FALSE, duration |-> duration]

\* Variant: the scan starts one line too early.
ExtractDurationSkipLast(lines) ==
    ScanDuration(lines, Len(lines) - 1, NoDuration)

\* line = len(lines) - 1; duration = -1; the loop (lines 67-72)
ExtractDuration(lines) == ScanDuration(lines, Len(lines), NoDuration)

\* ---------------------------------------------------------------------------
\* State
\* ---------------------------------------------------------------------------

VARIABLES
    test_cases,      \* list of TestCase references (lines 127-140)
    obj_name,        \* TestCase.name of every TestCase object
    test_process,    \* TestCase.test_process: a position of procs, 0 = None
    repeat,          \* --repeat
    max_jobs,        \* --jobs
    procs,           \* the processes started by Popen, in start order
    running_tests,   \* list of TestCase references (line 148)
    cur,             \* position of the for loop of line 149 in test_cases
    scan,            \* position of the inner for loop in running_tests
    pc,              \* control point of run_tests
    test_counter,    \* TestPrinter.test_counter
    test_count,      \* TestPrinter.test_count
    ok_count,        \* TestPrinter.ok_count
    failing_count,   \* TestPrinter.failing_count
    run_status_idx,  \* TestPrinter.run_status_idx
    results,         \* per process: number of OK and of FAIL lines logged
    last_line,       \* the last result line logged by print_result
    failing_list,    \* the names logged under "Failing test cases:"
    exit_code,       \* <<>> while the session runs, <<code>> once it exited
    error,           \* the exception that ended the session, "" if none
    out_lines,       \* duration extraction alone: the captured lines
    out_result       \* duration extraction alone: <<>> or <<result>>

printer == <<test_counter, ok_count, failing_count, results, last_line>>
inputs == <<repeat, max_jobs>>
cases == <<test_cases, obj_name, test_count>>
ending == <<failing_list, exit_code, error>>
parsing == <<out_lines, out_result>>

vars == <<test_cases, obj_name, test_process, repeat, max_jobs, procs,
          running_tests, cur, scan, pc, test_counter, test_count, ok_count,
          failing_count, run_status_idx, results, last_line, failing_list,
          exit_code, error, out_lines, out_result>>

\* Exit statuses a test process can end with (0 pass, 1 fail, -11 crash).
ExitCodes == {0, 1, 0 - 11}

\* The options click accepts for --jobs and --repeat, within the bounds.
JobsValues == (0 - 1) .. MaxJobs
RepeatValues == 0 .. MaxRepeat

\* Captured outputs a test process can leave: nothing, text only, a duration
\* line before the separator, text before the separator.
CapturedOutputs ==
    { << >>,
      << Line(0, FALSE, 0) >>,
      << Line(0, FALSE, 0), Line(0, TRUE, 123), Line(SepRun, FALSE, 0),
         Line(0, FALSE, 0) >>,
      << Line(0, FALSE, 0), Line(SepRun, FALSE, 0) >> }

NoLine == [counter |-> 0, case |-> 0, passed |-> FALSE, duration |-> 0]

\* ---------------------------------------------------------------------------
\* Helpers
\* ---------------------------------------------------------------------------

\* Variant: poll() reports every process as ended.
PollAlwaysExited(p) == [exited |-> TRUE, rc |-> procs[p].rc]

\* Popen.poll(): exited is FALSE for None, else rc is the return code.
Poll(p) == [exited |-> procs[p].st = "exited", rc |-> procs[p].rc]

\* Variant: equality on the name alone.
NameEq(a, b) == obj_name[a] = obj_name[b]

\* TestCase.__eq__ generated by @dataclass: fields compared in order; two
\* Popen objects are equal only when they are the same object.
TestCaseEq(a, b) ==
    /\ obj_name[a] = obj_name[b]
    /\ test_process[a] = test_process[b]

\* Variant: the oldest member is dropped, pop(0).
RemoveHead(s, x) == Tail(s)

\* list.remove(x): drops the first element equal to x.
RECURSIVE RemoveFirst(_, _)
RemoveFirst(s, x) ==
    IF s = << >> THEN << >>
    ELSE IF TestCaseEq(Head(s), x) THEN Tail(s)
    ELSE << Head(s) >> \o RemoveFirst(Tail(s), x)

\* Variant: the same objects appended again, no copy.
SharedRepeat(names, r) ==
    LET n == Len(names)
    IN  [refs  |-> [k \in 1 .. (r * n) |-> ((k - 1) % n) + 1],
         names |-> names]

\* The loops of lines 136-140: repeat copies of the list, every entry a
\* deep copy, that is a new object.
DeepCopyRepeat(names, r) ==
    LET n == Len(names)
    IN  [refs  |-> [k \in 1 .. (r * n) |-> k],
         names |-> [k \in 1 .. (r * n) |-> names[((k - 1) % n) + 1]]]

\* Variant: the check for no test cases is missing.
NoMatchNever(tcs) == FALSE

\* len(test_cases) == 0 (line 143)
NoMatch(tcs) == Len(tcs) = 0

\* Variant: the list is walked from its end.
CaseFromEnd(k) == test_cases[Len(test_cases) + 1 - k]

\* The test case the for loop of line 149 takes at its k-th iteration.
CaseAt(k) == test_cases[k]

\* Variant: one member too many before the scheduler waits.
SlotsFullOffByOne == Len(running_tests) = max_jobs + 1

\* len(running_tests) == max_jobs (lines 150 and 157)
SlotsFull == Len(running_tests) = max_jobs

\* Variant: only exit status 1 is a failure.
PassedUnlessOne(status) == status # 1

\* status == 0 (line 76)
Passed(status) == status = 0

\* Variant: poll() > 0.
ListedIfPositive(o) ==
    Poll(test_process[o]).exited /\ Poll(test_process[o]).rc > 0

\* test_case.test_process.poll() != 0 (line 189); None != 0 holds.
ListedAsFailing(o) ==
    ~ (Poll(test_process[o]).exited /\ Poll(test_process[o]).rc = 0)

\* Variant: the session always reports success.
ExitCodeAlwaysZero(fc) == 0

\* sys.exit(failing_count > 0) (line 194): True is exit code 1, False is 0.
SessionExitCode(fc) == IF fc > 0 THEN 1 ELSE 0

\* The loop of lines 188-190.
FailingCases(tcs) == SelectSeq(tcs, ListedAsFailing)

\* ---------------------------------------------------------------------------
\* Initial state: run_tests after discovery (lines 116-135)
\* ---------------------------------------------------------------------------

\* What is the same at the start of a session and of a duration extraction.
Fresh ==
    /\ procs = << >>
    /\ running_tests = << >>
    /\ cur = 0
    /\ scan = 0
    /\ pc = "repeat"
    /\ test_counter = 0
    /\ test_count = 0
    /\ ok_count = 0
    /\ failing_count = 0
    /\ run_status_idx = 0
    /\ results = << >>
    /\ last_line = NoLine
    /\ failing_list = << >>
    /\ exit_code = << >>
    /\ error = ""

\* The discovered test cases have distinct names; every run gets its options.
Init ==
    /\ \E n \in 0 .. MaxTests :
         /\ test_cases = [k \in 1 .. n |-> k]
         /\ obj_name = [k \in 1 .. n |-> k]
         /\ test_process = [k \in 1 .. n |-> 0]
    /\ repeat \in RepeatValues
    /\ Len(test_cases) * repeat <= MaxRuns
    /\ max_jobs \in JobsValues
    /\ Fresh
    /\ out_lines = << >>
    /\ out_result = << >>

\* ---------------------------------------------------------------------------
\* run_tests
\* ---------------------------------------------------------------------------

\* Lines 136-145: repeat expansion, test_count, exit when nothing matches.
ExpandRepeat ==
    /\ pc = "repeat"
    /\ LET d == DeepCopyRepeat([k \in 1 .. Len(test_cases) |->
                                    obj_name[test_cases[k]]], repeat)
       IN  /\ test_cases' = d.refs
           /\ obj_name' = d.names
           /\ test_process' = [o \in DOMAIN d.names |-> 0]
           /\ test_count' = Len(d.refs)
           /\ IF NoMatch(d.refs)
              THEN /\ pc' = "exited"
                   /\ exit_code' = << 1 >>
                   /\ cur' = cur
              ELSE /\ pc' = IF Len(d.refs) > 0 THEN "while" ELSE "drain"
                   /\ exit_code' = exit_code
                   /\ cur' = 1
    /\ UNCHANGED <<inputs, procs, running_tests, scan, printer,
                   run_status_idx, failing_list, error, parsing>>

\* Variant: the members are polled before every Popen, full or not.
BeginScanAlways ==
    /\ pc = "while"
    /\ scan' = 1
    /\ pc' = "scan"
    /\ UNCHANGED <<cases, test_process, inputs, procs, running_tests, cur,
                   printer, run_status_idx, ending, parsing>>

\* Line 150, condition true: the scan of lines 151-156 starts.
BeginScan ==
    /\ pc = "while"
    /\ SlotsFull
    /\ scan' = 1
    /\ pc' = "scan"
    /\ UNCHANGED <<cases, test_process, inputs, procs, running_tests, cur,
                   printer, run_status_idx, ending, parsing>>

\* Lines 160-164: Popen succeeds, the test case joins running_tests and the
\* for loop moves on (to the drain loop after the last test case).
Spawn ==
    /\ pc = "while"
    /\ ~ SlotsFull
    /\ LET o == CaseAt(cur)
       IN  /\ procs' = Append(procs, [case |-> o, st |-> "running", rc |-> 0])
           /\ test_process' = [test_process EXCEPT ![o] = Len(procs) + 1]
           /\ running_tests' = Append(running_tests, o)
    /\ results' = Append(results, [ok |-> 0, fail |-> 0])
    /\ cur' = cur + 1
    /\ pc' = IF cur < Len(test_cases) THEN "while" ELSE "drain"
    /\ UNCHANGED <<cases, inputs, scan, test_counter, ok_count, failing_count,
                   last_line, run_status_idx, ending, parsing>>

\* Variant: the failure is noted and the for loop takes the next test case.
SpawnFailSkipped ==
    /\ pc = "while"
    /\ ~ SlotsFull
    /\ error' = "OSError"
    /\ cur' = cur + 1
    /\ pc' = IF cur < Len(test_cases) THEN "while" ELSE "drain"
    /\ UNCHANGED <<cases, test_process, inputs, procs, running_tests, scan,
                   printer, run_status_idx, failing_list, exit_code, parsing>>

\* Lines 160-163: Popen raises OSError, nothing catches it.
SpawnFail ==
    /\ pc = "while"
    /\ ~ SlotsFull
    /\ pc' = "crashed"
    /\ error' = "OSError"
    /\ exit_code' = << 1 >>
    /\ UNCHANGED <<cases, test_process, inputs, procs, running_tests, cur,
                   scan, printer, run_status_idx, failing_list, parsing>>

\* A running test process ends, at any time, with any exit status.
ProcExit ==
    /\ \E p \in DOMAIN procs, rc \in ExitCodes :
         /\ procs[p].st = "running"
         /\ procs' = [procs EXCEPT ![p] = [@ EXCEPT !.st = "exited", !.rc = rc]]
    /\ UNCHANGED <<cases, test_process, inputs, running_tests, cur, scan, pc,
                   printer, run_status_idx, ending, parsing>>

\* print_result (lines 61-86) on running_tests[scan] with the lines its
\* process left, then running_tests.remove and break (lines 155-156 and
\* 172-173); after is the control point the break leads to.
PrintResultAndRemove(lines, after) ==
    LET o == running_tests[scan]
        p == test_process[o]
        status == Poll(p).rc
        r == ExtractDuration(lines)
    IN  /\ test_counter' = test_counter + 1
        /\ IF r.raised
           THEN /\ pc' = "crashed"
                /\ error' = "ValueError"
                /\ exit_code' = << 1 >>
                /\ UNCHANGED <<ok_count, failing_count, results, last_line,
                               running_tests>>
           ELSE /\ IF Passed(status)
                   THEN /\ ok_count' = ok_count + 1
                        /\ failing_count' = failing_count
                        /\ results' = [results EXCEPT ![p].ok = @ + 1]
                   ELSE /\ ok_count' = ok_count
                        /\ failing_count' = failing_count + 1
                        /\ results' = [results EXCEPT ![p].fail = @ + 1]
                /\ last_line' = [counter |-> test_counter + 1, case |-> o,
                                 passed |-> Passed(status),
                                 duration |-> r.duration]
                /\ running_tests' = RemoveFirst(running_tests, o)
                /\ pc' = after
                /\ UNCHANGED <<error, exit_code>>

\* Lines 152-153, status is None: the for loop takes the next member.
PollRunning ==
    /\ pc = "scan"
    /\ scan <= Len(running_tests)
    /\ ~ Poll(test_process[running_tests[scan]]).exited
    /\ scan' = scan + 1
    /\ UNCHANGED <<cases, test_process, inputs, procs, running_tests, cur, pc,
                   printer, run_status_idx, ending, parsing>>

\* Lines 152-156, status is not None.
Harvest ==
    /\ pc = "scan"
    /\ scan <= Len(running_tests)
    /\ Poll(test_process[running_tests[scan]]).exited
    /\ \E lines \in CapturedOutputs : PrintResultAndRemove(lines, "scanned")
    /\ UNCHANGED <<cases, test_process, inputs, procs, cur, scan,
                   run_status_idx, failing_list, parsing>>

\* Line 151: the for loop ends without a break.
ScanEnd ==
    /\ pc = "scan"
    /\ scan > Len(running_tests)
    /\ pc' = "scanned"
    /\ UNCHANGED <<cases, test_process, inputs, procs, running_tests, cur,
                   scan, printer, run_status_idx, ending, parsing>>

\* Lines 157-158: still full after the scan, print_run_status (lines 88-94).
StillFull ==
    /\ pc = "scanned"
    /\ SlotsFull
    /\ IF Len(running_tests) = 0
       THEN /\ pc' = "crashed"
            /\ error' = "ZeroDivisionError"
            /\ exit_code' = << 1 >>
            /\ run_status_idx' = run_status_idx
       ELSE /\ run_status_idx' = (run_status_idx + 1) % Len(running_tests)
            /\ pc' = "sleep"
            /\ UNCHANGED <<error, exit_code>>
    /\ UNCHANGED <<cases, test_process, inputs, procs, running_tests, cur,
                   scan, printer, failing_list, parsing>>

\* Line 157, condition false: back to the while of line 150.
SlotFreed ==
    /\ pc = "scanned"
    /\ ~ SlotsFull
    /\ pc' = "while"
    /\ UNCHANGED <<cases, test_process, inputs, procs, running_tests, cur,
                   scan, printer, run_status_idx, ending, parsing>>

\* Line 159: sleep(0.2), then the while of line 150 again.
Sleep ==
    /\ pc = "sleep"
    /\ pc' = "while"
    /\ UNCHANGED <<cases, test_process, inputs, procs, running_tests, cur,
                   scan, printer, run_status_idx, ending, parsing>>

\* Lines 166-167: the drain loop goes on, print_run_status, the scan starts.
DrainScan ==
    /\ pc = "drain"
    /\ Len(running_tests) > 0
    /\ run_status_idx' = (run_status_idx + 1) % Len(running_tests)
    /\ scan' = 1
    /\ pc' = "dscan"
    /\ UNCHANGED <<cases, test_process, inputs, procs, running_tests, cur,
                   printer, ending, parsing>>

\* Line 166, condition false: the summary follows.
DrainEnd ==
    /\ pc = "drain"
    /\ Len(running_tests) = 0
    /\ pc' = "summary"
    /\ UNCHANGED <<cases, test_process, inputs, procs, running_tests, cur,
                   scan, printer, run_status_idx, ending, parsing>>

\* Lines 169-170, status is None: the sleep of line 174 is next.
DrainPoll ==
    /\ pc = "dscan"
    /\ scan <= Len(running_tests)
    /\ ~ Poll(test_process[running_tests[scan]]).exited
    /\ pc' = "dsleep"
    /\ UNCHANGED <<cases, test_process, inputs, procs, running_tests, cur,
                   scan, printer, run_status_idx, ending, parsing>>

\* Line 174: sleep(0.2) inside the for loop, then the next member.
DrainSleep ==
    /\ pc = "dsleep"
    /\ scan' = scan + 1
    /\ pc' = "dscan"
    /\ UNCHANGED <<cases, test_process, inputs, procs, running_tests, cur,
                   printer, run_status_idx, ending, parsing>>

\* Lines 169-173, status is not None.
DrainHarvest ==
    /\ pc = "dscan"
    /\ scan <= Len(running_tests)
    /\ Poll(test_process[running_tests[scan]]).exited
    /\ \E lines \in CapturedOutputs : PrintResultAndRemove(lines, "drain")
    /\ UNCHANGED <<cases, test_process, inputs, procs, cur, scan,
                   run_status_idx, failing_list, parsing>>

\* Line 168: the for loop ends without a break.
DrainScanEnd ==
    /\ pc = "dscan"
    /\ scan > Len(running_tests)
    /\ pc' = "drain"
    /\ UNCHANGED <<cases, test_process, inputs, procs, running_tests, cur,
                   scan, printer, run_status_idx, ending, parsing>>

\* Lines 176-194: the summary and sys.exit(failing_count > 0).
Summary ==
    /\ pc = "summary"
    /\ failing_list' = IF failing_count = 0 THEN << >>
                       ELSE FailingCases(test_cases)
    /\ exit_code' = << SessionExitCode(failing_count) >>
    /\ pc' = "done"
    /\ UNCHANGED <<cases, test_process, inputs, procs, running_tests, cur,
                   scan, printer, run_status_idx, error, parsing>>

Scheduler ==
    \/ ExpandRepeat
    \/ BeginScan
    \/ Spawn
    \/ SpawnFail
    \/ PollRunning
    \/ Harvest
    \/ ScanEnd
    \/ StillFull
    \/ SlotFreed
    \/ Sleep
    \/ DrainScan
    \/ DrainEnd
    \/ DrainPoll
    \/ DrainSleep
    \/ DrainHarvest
    \/ DrainScanEnd
    \/ Summary

Next == Scheduler \/ ProcExit

Spec == Init /\ [][Next]_vars

\* Fairness: the control loop keeps running and every started process ends.
LiveSpec == Spec /\ WF_vars(Scheduler) /\ WF_vars(ProcExit)

\* Fairness of the control loop alone: a started process may never end.
HungSpec == Spec /\ WF_vars(Scheduler)

\* ---------------------------------------------------------------------------
\* Duration extraction alone: print_result's loop on every captured output of
\* at most MaxLines lines
\* ---------------------------------------------------------------------------

RECURSIVE SeqsUpTo(_, _)
SeqsUpTo(S, n) ==
    IF n = 0 THEN { << >> }
    ELSE LET shorter == SeqsUpTo(S, n - 1)
         IN  shorter \cup { Append(s, x) : s \in shorter, x \in S }

ParseInit ==
    /\ test_cases = << >>
    /\ obj_name = << >>
    /\ test_process = << >>
    /\ repeat = 1
    /\ max_jobs = 1
    /\ Fresh
    /\ out_lines \in SeqsUpTo(CapturedLines, MaxLines)
    /\ out_result = << >>

\* Lines 66-72 on out_lines.
ParseOutput ==
    /\ out_result = << >>
    /\ out_result' = << ExtractDuration(out_lines) >>
    /\ out_lines' = out_lines
    /\ UNCHANGED <<cases, test_process, inputs, procs, running_tests, cur,
                   scan, pc, printer, run_status_idx, ending>>

ParseNext == ParseOutput

ParseSpec == ParseInit /\ [][ParseNext]_vars

\* ---------------------------------------------------------------------------
\* Properties
\* ---------------------------------------------------------------------------

\* The session has reached the summary.
Finished == pc \in {"summary", "done"}

\* Number of discovered test cases (their names are distinct).
CatalogSize == Cardinality({ obj_name[o] : o \in DOMAIN obj_name })

\* Number of result lines print_result logged for process p.
ResultLines(p) == results[p].ok + results[p].fail

\* Position of test case o in test_cases.
Position(o) == CHOOSE k \in 1 .. Len(test_cases) : test_cases[k] = o

\* C1: with a job limit of at least 1, running_tests never holds more than
\* max_jobs runs, and no more than max_jobs started processes are unharvested.
BoundedRunning ==
    max_jobs >= 1 =>
        /\ Len(running_tests) <= max_jobs
        /\ Cardinality({ p \in DOMAIN procs : ResultLines(p) = 0 }) <= max_jobs

\* All slots taken, test cases left to start, a member exited during the scan.
BoundedRunningWitness ==
    /\ max_jobs = 2
    /\ Len(running_tests) = max_jobs
    /\ pc = "scan"
    /\ cur <= Len(test_cases)
    /\ \E i \in 1 .. Len(running_tests) :
         Poll(test_process[running_tests[i]]).exited

\* C2: at the summary, repeat * (catalog size) processes were started, one
\* for every entry of the repeated list, and every entry holds its own.
EveryOccurrenceSpawnedOnce ==
    Finished =>
        /\ Len(test_cases) = repeat * CatalogSize
        /\ Len(procs) = repeat * CatalogSize
        /\ \A k \in 1 .. Len(test_cases) :
             /\ Cardinality({ p \in DOMAIN procs :
                                procs[p].case = test_cases[k] }) = 1
             /\ test_process[test_cases[k]] \in DOMAIN procs
             /\ procs[test_process[test_cases[k]]].case = test_cases[k]
        /\ \A j, k \in 1 .. Len(test_cases) :
             j # k => test_process[test_cases[j]] # test_process[test_cases[k]]

EveryOccurrenceSpawnedOnceWitness ==
    /\ pc = "done"
    /\ repeat = 2
    /\ CatalogSize = 2
    /\ Len(procs) = 4

\* C3: at the summary, ok_count + failing_count = test_count = number of
\* runs, and print_result logged exactly one result line for every process.
AllRunsCounted ==
    Finished =>
        /\ ok_count + failing_count = test_count
        /\ test_count = Len(test_cases)
        /\ Len(procs) = test_count
        /\ \A p \in DOMAIN procs : ResultLines(p) = 1

\* Passes and failures, the first test case harvested last.
AllRunsCountedWitness ==
    /\ pc = "done"
    /\ ok_count >= 1
    /\ failing_count >= 1
    /\ test_count >= 3
    /\ last_line.case = test_cases[1]

\* C4: the failing list holds exactly the test cases whose process ended
\* with a non-zero status, which are those print_result logged as FAIL, in
\* the order of test_cases.
FailingListExact ==
    pc = "done" =>
        /\ Len(failing_list) = failing_count
        /\ \A k \in 1 .. Len(test_cases) :
             LET o == test_cases[k]
                 listed == \E i \in 1 .. Len(failing_list) : failing_list[i] = o
             IN  /\ listed <=> procs[test_process[o]].rc # 0
                 /\ listed <=> results[test_process[o]].fail = 1
        /\ \A i, j \in 1 .. Len(failing_list) :
             i < j => Position(failing_list[i]) < Position(failing_list[j])

\* Two failures listed, the first of them harvested last.
FailingListExactWitness ==
    /\ pc = "done"
    /\ Len(failing_list) >= 2
    /\ ok_count >= 1
    /\ last_line.case = failing_list[1]

\* C5: with a job limit of at least 1, when every process ends and the
\* control loop keeps running, the session reaches the end of the summary
\* with nothing left to start and running_tests empty (or found no test
\* case, or could not start a process).
DrainsAndTerminates ==
    (max_jobs >= 1) =>
        <>(\/ /\ pc = "done"
              /\ cur > Len(test_cases)
              /\ running_tests = << >>
           \/ pc = "exited"
           \/ error = "OSError")

\* C6: the p-th process started belongs to the p-th entry of test_cases.
SpawnedInOrder ==
    \A p \in DOMAIN procs : procs[p].case = test_cases[p]

\* The second run was harvested and the third started while the first runs.
SpawnedInOrderWitness ==
    /\ Len(procs) >= 3
    /\ procs[1].st = "running"
    /\ ResultLines(2) = 1

\* At the summary every entry was started and harvested once, and
\* failing_count is the number of processes that ended non-zero; so is, per
\* test name, the number of FAIL lines.
FailuresCountedAtSummary ==
    Finished =>
        /\ Len(procs) = Len(test_cases)
        /\ \A p \in DOMAIN procs : ResultLines(p) = 1
        /\ failing_count =
             Cardinality({ p \in DOMAIN procs : procs[p].rc # 0 })
        /\ \A p \in DOMAIN procs :
             LET same == { q \in DOMAIN procs :
                             obj_name[procs[q].case] = obj_name[procs[p].case] }
             IN  Cardinality({ q \in same : results[q].fail = 1 })
                 = Cardinality({ q \in same : procs[q].rc # 0 })

\* A step that records a failing result removes one member of running_tests
\* and changes nothing else of the scheduling: the for loop stays where it
\* is, the session goes on, ok_count is untouched.
FailureKeepsScheduling ==
    failing_count' # failing_count =>
        /\ failing_count' = failing_count + 1
        /\ ok_count' = ok_count
        /\ cur' = cur
        /\ test_cases' = test_cases
        /\ error' = error
        /\ pc' \in {"scanned", "drain"}
        /\ Len(running_tests') = Len(running_tests) - 1

DurationNeverAborts == error # "ValueError"

\* Separator lines of a captured output.
SeparatorLines(lines) == { k \in 1 .. Len(lines) : HasSeparator(lines[k]) }

LastSeparator(lines) ==
    CHOOSE k \in SeparatorLines(lines) :
        \A j \in SeparatorLines(lines) : j <= k

\* C9 as stated: the duration is the number on the line before the last
\* separator line; without a separator line it is -1.
DurationBeforeLastSeparator ==
    out_result # << >> =>
        IF SeparatorLines(out_lines) = {}
        THEN out_result[1] = [raised |-> FALSE, duration |-> NoDuration]
        ELSE LET k == LastSeparator(out_lines)
             IN  (k > 1 /\ out_lines[k - 1].parses) =>
                     out_result[1] = [raised |-> FALSE,
                                      duration |-> out_lines[k - 1].val]

\* C9: the duration is the number on the line before the last separator
\* line when that number is not negative; without a separator line it is -1.
NonNegativeDurationBeforeLastSeparator ==
    out_result # << >> =>
        IF SeparatorLines(out_lines) = {}
        THEN out_result[1] = [raised |-> FALSE, duration |-> NoDuration]
        ELSE LET k == LastSeparator(out_lines)
             IN  (k > 1 /\ out_lines[k - 1].parses /\ out_lines[k - 1].val >= 0) =>
                     out_result[1] = [raised |-> FALSE,
                                      duration |-> out_lines[k - 1].val]

\* Two separator lines, each after a duration line: the later one counts.
NonNegativeDurationWitness ==
    /\ out_result = << [raised |-> FALSE, duration |-> 123] >>
    /\ Len(out_lines) = 4
    /\ out_lines[1] = Line(0, TRUE, 0)
    /\ HasSeparator(out_lines[2])
    /\ out_lines[3] = Line(0, TRUE, 123)
    /\ HasSeparator(out_lines[4])

\* C10: once the repeated list is empty the session has exited with code 1,
\* no process was started, no result or summary was logged.
NoMatchExits ==
    /\ (pc # "repeat" /\ Len(test_cases) = 0) =>
           /\ pc = "exited"
           /\ exit_code = << 1 >>
           /\ procs = << >>
           /\ test_counter = 0
           /\ failing_list = << >>
    /\ pc = "exited" => Len(test_cases) = 0

NoMatchExitsWitness ==
    /\ pc = "exited"
    /\ repeat = 2
    /\ exit_code = << 1 >>
    /\ procs = << >>

\* C11: at the end of the summary the exit code is 0 when no harvested run
\* ended non-zero, which is when failing_count is 0, and 1 otherwise.
ExitCodeReflectsFailures ==
    pc = "done" =>
        /\ exit_code \in {<< 0 >>, << 1 >>}
        /\ exit_code = << 0 >> <=> failing_count = 0
        /\ exit_code = << 0 >> <=>
               \A p \in DOMAIN procs : ResultLines(p) > 0 => procs[p].rc = 0

\* A session with passes and one failure ends with exit code 1.
ExitCodeReflectsFailuresWitness ==
    /\ pc = "done"
    /\ exit_code = << 1 >>
    /\ failing_count = 1
    /\ ok_count >= 2

\* Once Popen failed the session is over with exit code 1 at the test case
\* that could not be started: it has no process and no result line, the
\* test cases after it were never started, no summary was logged.
AbortedAtSpawn ==
    error = "OSError" =>
        /\ pc = "crashed"
        /\ exit_code = << 1 >>
        /\ cur \in 1 .. Len(test_cases)
        /\ Len(procs) = cur - 1
        /\ Len(results) = cur - 1
        /\ \A k \in cur .. Len(test_cases) : test_process[test_cases[k]] = 0
        /\ failing_list = << >>

\* After the failure nothing is started, counted or logged any more.
NothingAfterAbort ==
    error = "OSError" =>
        /\ Len(procs') = Len(procs)
        /\ printer' = printer
        /\ running_tests' = running_tests
        /\ <<pc, cur, failing_list, exit_code, error>>
               = <<pc', cur', failing_list', exit_code', error'>>

\* C12: a failing Popen ends the session at that test case; no later test
\* case is started, the failed one is counted neither ok nor failing, and no
\* summary is logged.
SpawnFailureAborts == [] AbortedAtSpawn /\ [][NothingAfterAbort]_vars

\* Popen failed for the third test case: one run harvested, one still
\* running, one test case never tried.
SpawnFailureAbortsWitness ==
    /\ error = "OSError"
    /\ cur = 3
    /\ Len(test_cases) = 4
    /\ test_counter = 1
    /\ Len(running_tests) = 1

\* A step in which print_result runs is a harvest of the member the scan is
\* at, whose process has ended.
PrintResultAfterExit ==
    test_counter' # test_counter =>
        /\ pc \in {"scan", "dscan"}
        /\ scan \in 1 .. Len(running_tests)
        /\ procs[test_process[running_tests[scan]]].st = "exited"

\* Every logged result belongs to an ended process; at the summary every
\* process has ended.
ResultsOfEndedProcesses ==
    /\ \A p \in DOMAIN procs : ResultLines(p) > 0 => procs[p].st = "exited"
    /\ Finished => \A p \in DOMAIN procs : procs[p].st = "exited"

\* C13: output, exit code and duration of a run are read only after a poll
\* found its process ended, and the summary reads exit codes only after
\* every run has ended.
ReadOnlyAfterExit ==
    [] ResultsOfEndedProcesses /\ [][PrintResultAfterExit]_vars

\* A run was harvested in the drain loop while an older one still runs.
ReadOnlyAfterExitWitness ==
    /\ pc = "drain"
    /\ test_counter >= 1
    /\ Len(running_tests) >= 1
    /\ procs[test_process[running_tests[1]]].st = "running"
    /\ last_line.case > running_tests[1]

\* Test cases that hold a process handle.
HandlesHeld == { o \in DOMAIN test_process : test_process[o] # 0 }

\* C14: a test case whose result print_result has logged holds no process
\* handle any more, so with a job limit of at least 1 no more than max_jobs
\* handles are held.
HandlesReleased ==
    /\ \A o \in HandlesHeld : ResultLines(test_process[o]) = 0
    /\ max_jobs >= 1 => Cardinality(HandlesHeld) <= max_jobs

\* print_result has logged the result of process p.
ResultLogged(p) == p \in DOMAIN results /\ ResultLines(p) = 1

\* The summary is reached only when every started process has ended.
SummaryWaitsForAll ==
    Finished => \A p \in DOMAIN procs : procs[p].st = "exited"

\* C15: while a started process has not ended the session does not reach the
\* summary, and every process that does end gets its result logged (unless
\* Popen failed for a later test case), whatever the other processes do.
StallsButHarvests ==
    /\ [] SummaryWaitsForAll
    /\ \A p \in 1 .. MaxRuns :
         (p \in DOMAIN procs /\ procs[p].st = "exited")
             ~> (ResultLogged(p) \/ error = "OSError")

\* C16: in the drain loop a sleep comes only after the last member of
\* running_tests was polled, never between two members of a scan.
DrainSleepsAfterFullScan ==
    pc = "dsleep" => scan = Len(running_tests)

\* In the dispatch loop a sleep comes only with running_tests full, after a
\* scan that polled every member and harvested none.
DispatchSleepsWhenFull ==
    pc = "sleep" =>
        /\ Len(running_tests) = max_jobs
        /\ scan = Len(running_tests) + 1
        /\ cur <= Len(test_cases)

\* With a test case left and a slot free, the control loop goes from the end
\* of a scan straight to the Popen of the next test case; a harvest in the
\* dispatch loop ends the scan with a slot free.
SpawnsWhenSlotFree ==
    /\ ( /\ pc \in {"while", "scanned"}
         /\ Len(running_tests) # max_jobs
         /\ <<pc, cur, scan>> # <<pc', cur', scan'>> ) =>
           /\ cur <= Len(test_cases)
           /\ pc = "scanned" =>
                  /\ pc' = "while"
                  /\ <<cur, scan, run_status_idx, procs, printer>>
                         = <<cur', scan', run_status_idx', procs', printer'>>
           /\ pc = "while" =>
                  \/ /\ procs' = Append(procs, [case |-> test_cases[cur],
                                                st |-> "running", rc |-> 0])
                     /\ cur' = cur + 1
                     /\ run_status_idx' = run_status_idx
                     /\ printer' = <<test_counter, ok_count, failing_count,
                                     Append(results, [ok |-> 0, fail |-> 0]),
                                     last_line>>
                  \/ error' = "OSError"
    /\ (pc = "scan" /\ test_counter' # test_counter /\ pc' # "crashed") =>
           /\ pc' = "scanned"
           /\ Len(running_tests') = max_jobs - 1

\* C17: the dispatch loop sleeps only when running_tests is full and the
\* scan found no ended member; with a test case left and a slot free, also
\* right after a harvest, its next action is the Popen of the next test case.
DispatchCadence ==
    [] DispatchSleepsWhenFull /\ [][SpawnsWhenSlotFree]_vars

\* After a sleep, a harvest has freed a slot and test cases are left.
DispatchCadenceWitness ==
    /\ pc = "scanned"
    /\ max_jobs = 2
    /\ Len(running_tests) = 1
    /\ run_status_idx = 1
    /\ test_counter >= 1
    /\ cur <= Len(test_cases)

\* The process of the i-th member of running_tests has ended.
MemberExited(i) == procs[test_process[running_tests[i]]].st = "exited"

\* The list s without its i-th element.
SeqWithout(s, i) ==
    [k \in 1 .. (Len(s) - 1) |-> IF k < i THEN s[k] ELSE s[k + 1]]

\* running_tests grows by the Popen of the next test case.
AppendedOnSpawn ==
    /\ cur \in 1 .. Len(test_cases)
    /\ running_tests' = Append(running_tests, test_cases[cur])
    /\ Len(procs') = Len(procs) + 1

\* The i-th member goes through print_result once and leaves running_tests,
\* the other members stay as they are, and the scan is over.
HarvestedAt(i) ==
    /\ MemberExited(i)
    /\ running_tests' = SeqWithout(running_tests, i)
    /\ test_counter' = test_counter + 1
    /\ LET p == test_process[running_tests[i]]
       IN  results'[p].ok + results'[p].fail = ResultLines(p) + 1
    /\ \A p \in DOMAIN procs :
           p # test_process[running_tests[i]] => results'[p] = results[p]
    /\ pc' \notin {"scan", "dscan"}

\* running_tests changes only by the append of a spawn or by the removal of
\* its first member whose process has ended.
RemovesFirstExitedStep ==
    running_tests' # running_tests =>
        \/ AppendedOnSpawn
        \/ \E i \in 1 .. Len(running_tests) :
             /\ HarvestedAt(i)
             /\ \A j \in 1 .. (i - 1) : ~ MemberExited(j)

\* C18 as stated: each scan harvests the first member of running_tests whose
\* process has ended, and running_tests changes in no other way but a spawn.
RemovesFirstExited == [][RemovesFirstExitedStep]_vars

\* running_tests changes only by the append of a spawn or by the removal of
\* the member the scan is at, which the poll found ended.
RemovesPolledMember ==
    running_tests' # running_tests =>
        \/ AppendedOnSpawn
        \/ /\ pc \in {"scan", "dscan"}
           /\ scan \in 1 .. Len(running_tests)
           /\ HarvestedAt(scan)

\* C18: each scan harvests at most one run, the first member in insertion
\* order that a poll of the scan finds ended; exactly that member is
\* removed, also among members of the same name, the others are unchanged.
HarvestsOnePolledMember == [][RemovesPolledMember]_vars

\* Two runs of the same test: the second was harvested, the first still runs.
HarvestsOnePolledMemberWitness ==
    /\ CatalogSize = 1
    /\ repeat = 2
    /\ running_tests = << 1 >>
    /\ procs[1].st = "running"
    /\ ResultLogged(2)

\* C19: test_counter is ok_count + failing_count and at most test_count,
\* and it is the index of the last result line.
CounterMatchesResults ==
    /\ test_counter = ok_count + failing_count
    /\ test_counter <= test_count
    /\ last_line.counter = test_counter

\* C20: print_run_status never divides by zero, and the index it leaves is
\* a position of running_tests.
RunStatusIndexValid ==
    /\ error # "ZeroDivisionError"
    /\ (pc = "sleep" \/ (pc = "dscan" /\ scan = 1)) =>
           /\ Len(running_tests) > 0
           /\ run_status_idx \in 0 .. (Len(running_tests) - 1)

====
